---- MODULE Spec2Model ----
(***************************************************************************)
(* States.StringSplit of the Step Functions intrinsic-function evaluator:  *)
(* StringSplit.__init__ and StringSplit._eval_body of string_split.py,     *)
(* run against the evaluation stack env.stack.                             *)
(*                                                                         *)
(* A Python str is a sequence of one-character strings.  A value on the    *)
(* stack is a record [type, str, parts]: type "str" carries its characters *)
(* in str, type "list" (the result of re.split) carries its segments in    *)
(* parts, and the other types ("int", "null") carry nothing.               *)
(***************************************************************************)
EXTENDS Integers, Sequences, FiniteSets

VARIABLES
    arg_list,   \* self.arg_list: the values its arguments evaluate to, in declaration order
    stack,      \* env.stack
    stack0,     \* env.stack as it was before this call's arguments were evaluated
    pc,         \* position in __init__ / _eval_body
    del_chars,  \* local del_chars of _eval_body
    string,     \* local string of _eval_body
    exc,        \* class of the exception raised, "none" when none was
    raised_at   \* the statement that raised it

vars == <<arg_list, stack, stack0, pc, del_chars, string, exc, raised_at>>

----------------------------------------------------------------------------
(* Bounds of the model. *)

MaxStrLen == 3    \* longest enumerated `string` operand
MaxDelLen == 2    \* longest enumerated `delimiterChars` operand
MaxArgs == 3      \* largest argument list handed to the constructor
MaxBase == 1      \* deepest stack found under the call's operands

----------------------------------------------------------------------------
(* Characters. *)

Letters == {"a", "b", "c", "d"}
Digits == {"1"}
Punct == {",", ";", ".", "|"}
Chars == Letters \cup Digits \cup Punct

\* The characters the operands are enumerated over: a pattern-syntax special
\* ("."), a letter whose escape is zero-width ("b"), a letter whose escape is
\* a class ("d"), and a digit ("1").
Alphabet == {".", "b", "d", "1"}

----------------------------------------------------------------------------
(* Values. *)

StrVal(s) == [type |-> "str", str |-> s, parts |-> <<>>]
ListVal(p) == [type |-> "list", str |-> <<>>, parts |-> p]
IntVal == [type |-> "int", str |-> <<>>, parts |-> <<>>]
NullVal == [type |-> "null", str |-> <<>>, parts |-> <<>>]
Unset == [type |-> "unset", str |-> <<>>, parts |-> <<>>]

NonStrings == {IntVal, NullVal}

StringsUpTo(n) == UNION {[1..k -> Alphabet] : k \in 0..n}

\* The calls the specification gives as examples:
\* StringSplit("a,b;;c", ",;"), StringSplit("abc", ""), and a "|" delimiter.
ExampleStrings == {<<"a", ",", "b", ";", ";", "c">>, <<"a", "b", "c">>, <<"a", "|", "b">>}
ExampleDelims == {<<",", ";">>, <<"|">>}

StringOperands ==
    {StrVal(s) : s \in StringsUpTo(MaxStrLen) \cup ExampleStrings} \cup NonStrings
DelimOperands ==
    {StrVal(d) : d \in StringsUpTo(MaxDelLen) \cup ExampleDelims} \cup NonStrings

SmallValues == {IntVal, StrVal(<<".">>)}

ArgLists ==
    {<<x, y>> : x \in StringOperands, y \in DelimOperands}
    \cup UNION {[1..n -> SmallValues] : n \in (0..MaxArgs) \ {2}}

BaseStacks == UNION {[1..n -> SmallValues] : n \in 0..MaxBase}

----------------------------------------------------------------------------
(* The evaluation stack: a Python list used through append and pop. *)

StackTop(stk) == stk[Len(stk)]
StackPop(stk) == SubSeq(stk, 1, Len(stk) - 1)

RECURSIVE PushAll(_, _)
\* arg_list.eval(env): the arguments are evaluated left to right and each
\* evaluation pushes exactly one value.
PushAll(stk, values) ==
    IF values = <<>> THEN stk
    ELSE PushAll(Append(stk, Head(values)), Tail(values))

----------------------------------------------------------------------------
(* Lines 42-45: the pattern text. *)

RECURSIVE Join(_)
\* "|".join(patterns)
Join(patterns) ==
    IF patterns = <<>> THEN <<>>
    ELSE IF Len(patterns) = 1 THEN Head(patterns)
    ELSE Head(patterns) \o <<"|">> \o Join(Tail(patterns))

\* for c in del_chars: patterns.append(f"\\{c}"); pattern = "|".join(patterns)
BuildPattern(chars) == Join([i \in 1..Len(chars) |-> <<"\\", chars[i]>>])

----------------------------------------------------------------------------
(* Line 47: re.split(pattern, string), as Python's re module runs it. *)

CharsAtom(set) == [kind |-> "chars", set |-> set]
BoundaryAtom == [kind |-> "boundary", set |-> {}]
ErrorAtom == [kind |-> "error", set |-> {}]

\* What a backslash followed by c means in a pattern: punctuation stands for
\* itself, \d is the digit class, \b the (zero-width) word boundary, \a the
\* BEL character (no character of Chars), and a backslash before any other
\* ASCII letter or before a digit 1-9 is rejected by the pattern compiler
\* ("bad escape", "invalid group reference").
Escape(c) ==
    IF c \in Punct THEN CharsAtom({c})
    ELSE IF c = "d" THEN CharsAtom(Digits)
    ELSE IF c = "a" THEN CharsAtom({})
    ELSE IF c = "b" THEN BoundaryAtom
    ELSE ErrorAtom

RECURSIVE ParseFrom(_, _, _, _)
\* The pattern text read left to right: a backslash takes the next character
\* as an escape and an unescaped "|" closes the current alternative.  The
\* text built by lines 42-45 holds nothing else; a plain character is kept
\* as itself.
ParseFrom(p, i, cur, alts) ==
    IF i > Len(p) THEN Append(alts, cur)
    ELSE IF p[i] = "\\" THEN
        IF i = Len(p) THEN Append(alts, Append(cur, ErrorAtom))
        ELSE ParseFrom(p, i + 2, Append(cur, Escape(p[i + 1])), alts)
    ELSE IF p[i] = "|" THEN ParseFrom(p, i + 1, <<>>, Append(alts, cur))
    ELSE ParseFrom(p, i + 1, Append(cur, CharsAtom({p[i]})), alts)

\* The alternatives of the compiled pattern, each a sequence of atoms.
Compile(pattern) == ParseFrom(pattern, 1, <<>>, <<>>)

CompileFails(alts) ==
    \E k \in 1..Len(alts) : \E j \in 1..Len(alts[k]) : alts[k][j].kind = "error"

IsWord(c) == c \in Letters \cup Digits

\* \b at position i (between s[i] and s[i+1]): exactly one side is a word
\* character; never in the empty string.
AtBoundary(s, i) ==
    /\ Len(s) > 0
    /\ (i > 0 /\ IsWord(s[i])) # (i < Len(s) /\ IsWord(s[i + 1]))

RECURSIVE MatchAlt(_, _, _)
\* Where a match of the alternative that starts at position i ends; -1 if
\* it does not match there.
MatchAlt(alt, s, i) ==
    IF alt = <<>> THEN i
    ELSE IF Head(alt).kind = "chars" THEN
        IF i < Len(s) /\ s[i + 1] \in Head(alt).set
        THEN MatchAlt(Tail(alt), s, i + 1)
        ELSE -1
    ELSE IF AtBoundary(s, i) THEN MatchAlt(Tail(alt), s, i)
    ELSE -1

\* The first alternative, in pattern order, with an acceptable match at i.
\* With must_advance set, an empty match at the position the search started
\* from is rejected.
MatchAt(alts, s, i, start, must_advance) ==
    LET ok(k) == /\ MatchAlt(alts[k], s, i) # -1
                 /\ ~(must_advance /\ i = start /\ MatchAlt(alts[k], s, i) = start)
        hits == {k \in 1..Len(alts) : ok(k)}
    IN  IF hits = {} THEN -1
        ELSE MatchAlt(alts[CHOOSE k \in hits : \A j \in hits : k <= j], s, i)

\* The leftmost match at or after start: [found, from, to].
Search(alts, s, start, must_advance) ==
    LET at == {i \in start..Len(s) : MatchAt(alts, s, i, start, must_advance) # -1}
    IN  IF at = {} THEN [found |-> FALSE, from |-> 0, to |-> 0]
        ELSE LET i == CHOOSE i \in at : \A j \in at : i <= j
             IN  [found |-> TRUE, from |-> i,
                  to |-> MatchAt(alts, s, i, start, must_advance)]

RECURSIVE SplitFrom(_, _, _, _, _)
\* The loop of pattern.split: the segment before each match, then the
\* segment after the last one (even if empty).
SplitFrom(alts, s, last, must_advance, acc) ==
    LET m == Search(alts, s, last, must_advance)
    IN  IF ~m.found THEN Append(acc, SubSeq(s, last + 1, Len(s)))
        ELSE SplitFrom(alts, s, m.to, m.from = m.to,
                       Append(acc, SubSeq(s, last + 1, m.from)))

Returned(p) == [exc |-> "none", at |-> "none", value |-> ListVal(p)]
Raised(e, where) == [exc |-> e, at |-> where, value |-> Unset]

\* re.split(pattern, string): the pattern is compiled first (re.error), the
\* subject must be a str (TypeError), then the split.
ReSplit(pattern, subject) ==
    LET alts == Compile(pattern)
    IN  IF CompileFails(alts) THEN Raised("re.error", "re.split")
        ELSE IF subject.type # "str" THEN Raised("TypeError", "re.split")
        ELSE Returned(SplitFrom(alts, subject.str, 0, FALSE, <<>>))

\* Lines 42-47 on the two locals: iterating a value that is not a str raises
\* TypeError in the for statement.
SplitCallSwapped(dc, str) ==
    IF str.type # "str" THEN Raised("TypeError", "for")
    ELSE ReSplit(BuildPattern(str.str), dc)

SplitCall(dc, str) ==
    IF dc.type # "str" THEN Raised("TypeError", "for")
    ELSE ReSplit(BuildPattern(dc.str), str)

----------------------------------------------------------------------------
(* StringSplit.__init__ and StringSplit._eval_body. *)

IsStr(v) == v.type = "str"

\* Line 24, negated: the argument list has the size the constructor accepts.
ArityAtLeastTwo(n) == n >= 2

ArityOk(n) == n = 2

\* Line 33: isinstance(del_chars, str).
DelCharsNotChecked(v) == TRUE

DelCharsIsStr(v) == IsStr(v)

\* Line 39: the test made after `string` is popped; it reads del_chars.
StringCheckPasses(dc, str) == IsStr(dc)

\* env.stack.pop() leaves the stack without its top entry.
PeekOnly(stk) == stk

AfterPop(stk) == StackPop(stk)

Init ==
    /\ arg_list \in ArgLists
    /\ stack \in BaseStacks
    /\ stack0 = stack
    /\ pc = "new"
    /\ del_chars = Unset
    /\ string = Unset
    /\ exc = "none"
    /\ raised_at = "none"

\* Lines 19-27: StringSplit(arg_list).
Construct ==
    /\ pc = "new"
    /\ IF ArityOk(Len(arg_list))
       THEN /\ pc' = "constructed"
            /\ UNCHANGED <<exc, raised_at>>
       ELSE /\ pc' = "init_raised"
            /\ exc' = "ValueError"
            /\ raised_at' = "arity"
    /\ UNCHANGED <<arg_list, stack, stack0, del_chars, string>>

\* Line 30: self.arg_list.eval(env=env).
EvalArgs ==
    /\ pc = "constructed"
    /\ stack' = PushAll(stack, arg_list)
    /\ pc' = "args_evaluated"
    /\ UNCHANGED <<arg_list, stack0, del_chars, string, exc, raised_at>>

\* Lines 32-36: del_chars = env.stack.pop() and its type check.
PopDelChars ==
    /\ pc = "args_evaluated"
    /\ del_chars' = StackTop(stack)
    /\ stack' = AfterPop(stack)
    /\ IF DelCharsIsStr(StackTop(stack))
       THEN /\ pc' = "del_chars_popped"
            /\ UNCHANGED <<exc, raised_at>>
       ELSE /\ pc' = "raised"
            /\ exc' = "ValueError"
            /\ raised_at' = "del_chars"
    /\ UNCHANGED <<arg_list, stack0, string>>

\* Lines 38-40: string = env.stack.pop() and the test that follows it.
PopString ==
    /\ pc = "del_chars_popped"
    /\ string' = StackTop(stack)
    /\ stack' = AfterPop(stack)
    /\ IF StringCheckPasses(del_chars, StackTop(stack))
       THEN /\ pc' = "string_popped"
            /\ UNCHANGED <<exc, raised_at>>
       ELSE /\ pc' = "raised"
            /\ exc' = "ValueError"
            /\ raised_at' = "string"
    /\ UNCHANGED <<arg_list, stack0, del_chars>>

\* Lines 42-48: the pattern, re.split, and env.stack.append(parts).
Split ==
    /\ pc = "string_popped"
    /\ LET r == SplitCall(del_chars, string)
       IN  IF r.exc = "none"
           THEN /\ stack' = Append(stack, r.value)
                /\ pc' = "done"
                /\ UNCHANGED <<exc, raised_at>>
           ELSE /\ pc' = "raised"
                /\ exc' = r.exc
                /\ raised_at' = r.at
                /\ UNCHANGED stack
    /\ UNCHANGED <<arg_list, stack0, del_chars, string>>

Next == Construct \/ EvalArgs \/ PopDelChars \/ PopString \/ Split

Spec == Init /\ [][Next]_vars

----------------------------------------------------------------------------
(* What the claims speak of. *)

\* The operands in declaration order: StringSplit(string, delimiterChars).
StringArg == arg_list[1]
DelimArg == arg_list[2]

Called == Len(arg_list) = 2 /\ pc # "new"
Finished == pc \in {"done", "raised"}
BothStrings == IsStr(StringArg) /\ IsStr(DelimArg)

CharSet(d) == {d[i] : i \in 1..Len(d)}

RECURSIVE CutAt(_, _, _, _)
\* s cut at every position whose character is in delims, and nowhere else.
CutAt(s, delims, cur, acc) ==
    IF s = <<>> THEN Append(acc, cur)
    ELSE IF Head(s) \in delims THEN CutAt(Tail(s), delims, <<>>, Append(acc, cur))
    ELSE CutAt(Tail(s), delims, Append(cur, Head(s)), acc)

LiteralSplit(s, delims) == CutAt(s, delims, <<>>, <<>>)

RECURSIVE Concat(_)
Concat(segs) == IF segs = <<>> THEN <<>> ELSE Head(segs) \o Concat(Tail(segs))

Occurrences(s, delims) == Cardinality({i \in 1..Len(s) : s[i] \in delims})

IsDelim(c) == c \in CharSet(DelimArg.str)
IsNotDelim(c) == ~IsDelim(c)

DelimStrings == StringsUpTo(MaxDelLen) \cup ExampleDelims

\* C1: for strings s and (non-empty; the empty d is C2's case) d, the call
\* succeeds and pushes s cut at exactly the positions whose character is a
\* character of d, each character of d standing literally for itself.
C1_SplitsAtLiteralDelimiters ==
    (Called /\ Finished /\ BothStrings /\ DelimArg.str # <<>>) =>
        /\ pc = "done"
        /\ StackTop(stack) = ListVal(LiteralSplit(StringArg.str, CharSet(DelimArg.str)))

\* C2: with delimiterChars the empty string the call pushes the one-element
\* sequence [s].
C2_EmptyDelimiterYieldsWholeString ==
    (Called /\ Finished /\ IsStr(StringArg) /\ DelimArg = StrVal(<<>>)) =>
        /\ pc = "done"
        /\ StackTop(stack) = ListVal(<<StringArg.str>>)

\* C3: after a successful evaluation the stack is the stack found before the
\* arguments were evaluated, unchanged and in order, plus one new top entry,
\* the result sequence.
C3_PopTwoPushOne ==
    pc = "done" =>
        /\ Len(stack) = Len(stack0) + 1
        /\ SubSeq(stack, 1, Len(stack0)) = stack0
        /\ StackTop(stack).type = "list"

C3_Witness ==
    /\ pc = "done"
    /\ stack0 # <<>>
    /\ stack = Append(stack0, ListVal(<<<<"1">>, <<"1">>>>))

\* C4: a `string` operand that is not a string, with delimiterChars a string,
\* is rejected by the operand validation (ValueError of line 40) before any
\* splitting is attempted, and no result is pushed.
C4_NonStringStringRejectedByValidation ==
    (Called /\ ~IsStr(StringArg) /\ IsStr(DelimArg)) =>
        /\ pc \notin {"string_popped", "done"}
        /\ pc = "raised" => (exc = "ValueError" /\ raised_at = "string")

\* C5: a delimiterChars operand that is not a string makes the evaluation
\* fail with the argument-type error of its validation (line 34) and push no
\* result, whatever the other operand is.
C5_NonStringDelimiterRejected ==
    (Called /\ ~IsStr(DelimArg)
        /\ pc \in {"del_chars_popped", "string_popped", "done", "raised"}) =>
        /\ pc = "raised"
        /\ exc = "ValueError"
        /\ raised_at = "del_chars"
        /\ stack = Append(stack0, StringArg)

C5_Witness ==
    /\ pc = "raised"
    /\ raised_at = "del_chars"
    /\ DelimArg = NullVal
    /\ StringArg = IntVal

\* C6: the arity is checked by the constructor: an argument list whose size is
\* not 2 makes it raise, and _eval_body only ever runs with 2 arguments.
C6_ArityCheckedAtConstruction ==
    /\ (pc # "new" /\ Len(arg_list) # 2) =>
            (pc = "init_raised" /\ exc = "ValueError" /\ raised_at = "arity")
    /\ pc \notin {"new", "init_raised"} => Len(arg_list) = 2
    /\ stack # stack0 => Len(arg_list) = 2

C6_Witness == pc = "init_raised" /\ Len(arg_list) = MaxArgs

\* C7: for strings s and non-empty d the result has 1 + (number of characters
\* of s that occur in d) segments, no segment holds a character of d, the
\* segments concatenated are s without its delimiter characters, and
\* StringSplit("a,b;;c", ",;") = ["a", "b", "", "c"].
C7_SegmentsOfDelimitedString ==
    (Called /\ Finished /\ BothStrings /\ DelimArg.str # <<>>) =>
        /\ pc = "done"
        /\ LET segs == StackTop(stack).parts
           IN  /\ Len(segs) = 1 + Occurrences(StringArg.str, CharSet(DelimArg.str))
               /\ \A k \in 1..Len(segs) : SelectSeq(segs[k], IsDelim) = <<>>
               /\ Concat(segs) = SelectSeq(StringArg.str, IsNotDelim)
               /\ (StringArg.str = <<"a", ",", "b", ";", ";", "c">>
                        /\ DelimArg.str = <<",", ";">>) =>
                      segs = <<<<"a">>, <<"b">>, <<>>, <<"c">>>>

\* C8: the value on top of the stack after argument evaluation is taken as
\* delimiterChars and the one beneath it as the string, so the call splits
\* its first argument by the characters of its second.
C8_OperandsPoppedInReverseOrder ==
    /\ pc \in {"del_chars_popped", "string_popped", "done"} => del_chars = DelimArg
    /\ pc \in {"string_popped", "done"} => string = StringArg
    /\ pc = "done" =>
            StackTop(stack) = ReSplit(BuildPattern(DelimArg.str), StringArg).value

C8_Witness ==
    /\ pc = "done"
    /\ StringArg = StrVal(<<"1", ".", "1">>)
    /\ DelimArg = StrVal(<<".">>)
    /\ StackTop(stack) = ListVal(<<<<"1">>, <<"1">>>>)

\* C9: whenever _eval_body raises, neither operand pushed for the call is
\* left on the stack: the stack is what it was before the arguments were
\* evaluated.
C9_FailureLeavesNoResidue == pc = "raised" => stack = stack0

\* C10: the outcome depends only on the set of characters of delimiterChars:
\* every delimiter string with the same characters, in any order and
\* multiplicity, gives the same result sequence, or fails as well.
C10_OutcomeDependsOnDelimiterSetOnly ==
    (Called /\ Finished /\ IsStr(DelimArg)) =>
        \A d2 \in DelimStrings :
            CharSet(d2) = CharSet(DelimArg.str) =>
                LET r == SplitCall(StrVal(d2), StringArg)
                IN  /\ (r.exc = "none") <=> (pc = "done")
                    /\ pc = "done" => r.value = StackTop(stack)

====
